---- MODULE Spec2Model ----
(***************************************************************************)
(* Model of the sketch parser: the indentation-sensitive tokenizer          *)
(* (src/src/parser/tokenizer.rs) and the recursive-descent parser with its  *)
(* combinators (src/src/parser.rs).                                         *)
(*                                                                          *)
(* A text is a sequence of characters; a character is a one-element string, *)
(* except WideChar which stands for one character whose UTF-8 encoding is   *)
(* two bytes long.  The tokenizer walks a line by character index           *)
(* (char_vec[offset]) but slices it by byte index (&input[offset..]), so    *)
(* the two views are kept apart by ByteLen / StrFrom.                       *)
(* Offsets are 0-based as in the source; sequences are 1-based.             *)
(***************************************************************************)
EXTENDS Integers, Sequences, FiniteSets, TLC

VARIABLES input, pc, line_no, offset, indent_stack, tokens, indent_tokens,
          self_tokens, p_offset, flags, call, result

vars == <<input, pc, line_no, offset, indent_stack, tokens, indent_tokens,
          self_tokens, p_offset, flags, call, result>>

\* ---------------------------------------------------------------- bounds
MaxLen == 3

MaxLines == 3

MaxIndent == 3

\* ------------------------------------------------------------ characters
WideChar == "é"

Alphabet == {" ", "\n", "a", ";", ">", "-", "%", "&", "$", "*", WideChar}

IdentChars == {"#", "a", "b", "c", "A", "Z", "0", "9", "_", "."}

WhitespaceChars == {" ", "\t", "\r", "\n"}

\* Option<T>: None is the empty sequence, Some(x) a one-element sequence.
None == <<>>

Some(x) == <<x>>

Tok(typ, text) == [typ |-> typ, text |-> text]

\* ------------------------------------------------------- string helpers
\* UTF-8 length of one character.
Utf8Width(c) == IF c = WideChar THEN 2 ELSE 1

RECURSIVE ByteLen(_)
\* str::len(): the length of a text in bytes.
ByteLen(s) == IF s = <<>> THEN 0 ELSE Utf8Width(Head(s)) + ByteLen(Tail(s))

\* b is a byte index at which a character of s starts (or the end of s).
IsCharBoundary(s, b) == \E j \in 0..Len(s) : ByteLen(SubSeq(s, 1, j)) = b

\* &s[b..] for a byte index b that is a character boundary.
StrFrom(s, b) ==
    LET j == CHOOSE k \in 0..Len(s) : ByteLen(SubSeq(s, 1, k)) = b
    IN  SubSeq(s, j + 1, Len(s))

RECURSIVE SplitAcc(_, _, _)
SplitAcc(s, sep, cur) ==
    IF s = <<>> THEN <<cur>>
    ELSE IF Head(s) = sep THEN <<cur>> \o SplitAcc(Tail(s), sep, <<>>)
    ELSE SplitAcc(Tail(s), sep, Append(cur, Head(s)))

\* input.split("\n").collect(): always at least one (possibly empty) line.
SplitLines(s) == SplitAcc(s, "\n", <<>>)

\* ----------------------------------------------------------- tokenizer
is_identifier_start(c) == c \in IdentChars

RECURSIVE FirstPiece(_)
\* split(|c| !is_identifier_start(c))[0]: the leading run of identifier
\* characters (empty when the text starts with a separator).
FirstPiece(s) ==
    IF s = <<>> \/ ~is_identifier_start(Head(s)) THEN <<>>
    ELSE <<Head(s)>> \o FirstPiece(Tail(s))

\* comment_token: the rest of the line from byte index off.
comment_token(off, line) ==
    IF ~IsCharBoundary(line, off) THEN [panic |-> TRUE, tok |-> Tok("Comment", <<>>)]
    ELSE [panic |-> FALSE, tok |-> Tok("Comment", StrFrom(line, off))]

\* identifier_token: slices the line at BYTE index off.
identifier_token(off, line) ==
    IF ~IsCharBoundary(line, off) THEN [panic |-> TRUE, tok |-> Tok("Identifier", <<>>)]
    ELSE [panic |-> FALSE, tok |-> Tok("Identifier", FirstPiece(StrFrom(line, off)))]

RECURSIVE SkipToIdentifier(_, _, _)
\* while !is_identifier_start(c) { c = input_as_chars[offset]; offset += 1 }
SkipToIdentifier(chars, c, off) ==
    IF is_identifier_start(c) THEN [panic |-> FALSE, offset |-> off]
    ELSE IF off >= Len(chars) THEN [panic |-> TRUE, offset |-> off]
    ELSE SkipToIdentifier(chars, chars[off + 1], off + 1)

\* Shared body of condition_token and action_token (the two are copies).
MarkedToken(typ, off, line) ==
    LET bad == [panic |-> TRUE, offset |-> off, tok |-> Tok(typ, <<>>)]
    IN  IF off >= Len(line) THEN bad
        ELSE LET sk == SkipToIdentifier(line, line[off + 1], off)
             IN  IF sk.panic \/ sk.offset - 1 < 0 THEN bad
                 ELSE LET o  == sk.offset - 1
                          id == identifier_token(o, line)
                      IN  IF id.panic THEN bad
                          ELSE [panic  |-> FALSE,
                                offset |-> o + ByteLen(id.tok.text),
                                tok    |-> Tok(typ, id.tok.text)]

condition_token(off, line) == MarkedToken("Condition", off, line)

action_token(off, line) == MarkedToken("Action", off, line)

RECURSIVE LeadingSpaces(_, _)
\* while line[offset] == ' ' { ... }: -1 when the read runs off the line.
LeadingSpaces(line, off) ==
    IF off >= Len(line) THEN -1
    ELSE IF line[off + 1] = " " THEN LeadingSpaces(line, off + 1)
    ELSE off

RECURSIVE PopLoopExtraDedent(_, _, _)
\* PopLoop that pushes the Dedent before it compares the popped entry.
PopLoopExtraDedent(stack, level, toks) ==
    IF stack = <<>> THEN [stack |-> stack, tokens |-> toks]
    ELSE LET prev_indent == stack[Len(stack)]
         IN  IF prev_indent > level
             THEN PopLoopExtraDedent(SubSeq(stack, 1, Len(stack) - 1), level,
                                     Append(toks, Tok("Dedent", <<>>)))
             ELSE [stack |-> stack,
                   tokens |-> Append(toks, Tok("Dedent", <<>>))]

RECURSIVE PopLoop(_, _, _)
\* while indent_stack.len() > 0 { pop; Dedent if deeper, else push back }
PopLoop(stack, level, toks) ==
    IF stack = <<>> THEN [stack |-> stack, tokens |-> toks]
    ELSE LET prev_indent == stack[Len(stack)]
         IN  IF prev_indent > level
             THEN PopLoop(SubSeq(stack, 1, Len(stack) - 1), level,
                          Append(toks, Tok("Dedent", <<>>)))
             ELSE [stack |-> stack, tokens |-> toks]

indent_dedent_tokens(stack, line) ==
    LET current_indent_level == LeadingSpaces(line, 0)
        same == [panic |-> FALSE, offset |-> current_indent_level,
                 stack |-> stack, tokens |-> <<>>]
        push == [same EXCEPT !.stack = Append(stack, current_indent_level),
                             !.tokens = <<Tok("Indent", <<>>)>>]
    IN  IF current_indent_level < 0
        THEN [panic |-> TRUE, offset |-> 0, stack |-> stack, tokens |-> <<>>]
        ELSE IF current_indent_level > 0
        THEN IF stack = <<>> THEN push
             ELSE LET prev_indent_level == stack[Len(stack)]
                  IN  IF prev_indent_level < current_indent_level THEN push
                      ELSE IF prev_indent_level > current_indent_level
                      THEN LET p == PopLoop(stack, current_indent_level, <<>>)
                           IN  [same EXCEPT !.stack = p.stack, !.tokens = p.tokens]
                      ELSE same
        ELSE same

\* One iteration of the scan loop of tokenize at character index off.
\* status: "next" (loop continues), "break" (comment ends the line),
\* "panic", "hang" (the iteration changes nothing but the token vector, so
\* the loop repeats it forever).
ScanStep(line, off) ==
    LET c == line[off + 1]
        r(st, o, toks) == [status |-> st, offset |-> o, tokens |-> toks]
        one(typ) == r("next", off + 1, <<Tok(typ, <<>>)>>)
        unknown == r("next", off + 1, <<Tok("Unknown", <<"unknown">>)>>)
    IN  CASE c = "%" ->
               LET t == comment_token(off, line)
               IN  IF t.panic THEN r("panic", off, <<>>)
                   ELSE r("break", off, <<t.tok>>)
          [] c = "&" -> one("ParallelState")
          [] c = "$" -> one("FinalState")
          [] c = "*" -> one("InitialState")
          [] c = ";" ->
               LET t == condition_token(off, line)
               IN  IF t.panic THEN r("panic", off, <<>>)
                   ELSE r("next", t.offset, <<t.tok>>)
          [] c = "-" ->
               IF off < ByteLen(line) - 1
               THEN IF off + 1 >= Len(line) THEN r("panic", off, <<>>)
                    ELSE IF line[off + 2] = ">"
                    THEN r("next", off + 2, <<Tok("TransitionArrow", <<>>)>>)
                    ELSE unknown
               ELSE unknown
          [] c = ">" ->
               LET t == action_token(off, line)
               IN  IF t.panic THEN r("panic", off, <<>>)
                   ELSE r("next", t.offset, <<t.tok>>)
          [] OTHER ->
               IF is_identifier_start(c)
               THEN LET t == identifier_token(off, line)
                    IN  IF t.panic THEN r("panic", off, <<>>)
                        ELSE IF ByteLen(t.tok.text) = 0
                        THEN r("hang", off, <<t.tok>>)
                        ELSE r("next", off + ByteLen(t.tok.text), <<t.tok>>)
               ELSE IF c \in WhitespaceChars THEN r("next", off + 1, <<>>)
               ELSE unknown

\* PopAll with the loop stopping one entry early.
PopAllButLast(stack) == [i \in 1..(Len(stack) - 1) |-> Tok("Dedent", <<>>)]

\* The final loop of tokenize: one Dedent per entry left on the stack.
PopAll(stack) == [i \in 1..Len(stack) |-> Tok("Dedent", <<>>)]

\* -------------------------------------------------------------- parser
\* The token-matching rules identifier, parallel_state, final_state,
\* initial_state, indent and dedent: each reads self.tokens[offset] without
\* a bounds check and yields Some((offset + 1, value)) on a match.
RuleTyp(rule) ==
    CASE rule = "identifier"     -> "Identifier"
      [] rule = "parallel_state" -> "ParallelState"
      [] rule = "final_state"    -> "FinalState"
      [] rule = "initial_state"  -> "InitialState"
      [] rule = "indent"         -> "Indent"
      [] rule = "dedent"         -> "Dedent"

\* TokenRule without the comparison of the token's type.
TokenRuleAnyTyp(rule, toks, off) ==
    IF off >= Len(toks) THEN [panic |-> TRUE, opt |-> None]
    ELSE [panic |-> FALSE,
          opt |-> Some([offset |-> off + 1, value |-> toks[off + 1].text])]

TokenRule(rule, toks, off) ==
    IF off >= Len(toks) THEN [panic |-> TRUE, opt |-> None]
    ELSE IF toks[off + 1].typ = RuleTyp(rule)
    THEN [panic |-> FALSE,
          opt |-> Some([offset |-> off + 1,
                        value  |-> IF rule = "identifier"
                                   THEN toks[off + 1].text ELSE <<TRUE>>])]
    ELSE [panic |-> FALSE, opt |-> None]

\* zero_or_one that advances the cursor past a token the rule rejected.
zero_or_one_advancing(off, rule, toks) ==
    LET x == TokenRule(rule, toks, off)
    IN  IF x.panic THEN [panic |-> TRUE, offset |-> off, opt |-> None]
        ELSE IF x.opt # None
        THEN [panic |-> FALSE, offset |-> x.opt[1].offset, opt |-> x.opt]
        ELSE [panic |-> FALSE, offset |-> off + 1, opt |-> None]

\* zero_or_one(offset, f): (new_offset, Some(x)) or (offset, None).
zero_or_one(off, rule, toks) ==
    LET x == TokenRule(rule, toks, off)
    IN  IF x.panic THEN [panic |-> TRUE, offset |-> off, opt |-> None]
        ELSE IF x.opt # None
        THEN [panic |-> FALSE, offset |-> x.opt[1].offset, opt |-> x.opt]
        ELSE [panic |-> FALSE, offset |-> off, opt |-> None]

RECURSIVE ZeroOrMoreLoop(_, _, _, _)
\* while let Some(x) = f(new_offset) { new_offset = x.0; push(x.1) }
ZeroOrMoreLoop(new_offset, parsed_values, rule, toks) ==
    LET x == TokenRule(rule, toks, new_offset)
    IN  IF x.panic
        THEN [panic |-> TRUE, offset |-> new_offset, values |-> parsed_values]
        ELSE IF x.opt # None
        THEN ZeroOrMoreLoop(x.opt[1].offset,
                            Append(parsed_values, x.opt[1].value), rule, toks)
        ELSE [panic |-> FALSE, offset |-> new_offset, values |-> parsed_values]

\* zero_or_more(offset, f)
zero_or_more(off, rule, toks) ==
    LET l == ZeroOrMoreLoop(off, <<>>, rule, toks)
    IN  IF l.panic THEN [panic |-> TRUE, offset |-> off, opt |-> None]
        ELSE IF Len(l.values) > 0
        THEN [panic |-> FALSE, offset |-> l.offset,
              opt |-> Some([offset |-> l.offset, value |-> l.values])]
        ELSE [panic |-> FALSE, offset |-> off, opt |-> None]

\* The StateNode literal state_parser returns.
StateNode ==
    [id |-> <<"1">>, typ |-> "AtomicState", initial |-> Some(<<"a", "b", "c">>),
     is_initial |-> FALSE, on |-> <<>>, states |-> <<>>]

\* filter(|t| !matches!(t.typ, TokenType::Comment(_)))
FilterComments(toks) == SelectSeq(toks, LAMBDA t : t.typ # "Comment")

\* ---------------------------------------------------------------- inputs
Spaces(n) == [i \in 1..n |-> " "]

\* Every text of at most MaxLen characters over the alphabet.
ScanTexts == UNION {[1..n -> Alphabet] : n \in 0..MaxLen}

Heads == {<<"a">>, <<"a", "&", "$">>, <<"a", "*">>}

Tails == {<<"a">>, <<"%">>}

IndentedLines == {Spaces(k) \o t : k \in 0..MaxIndent, t \in Tails}

RECURSIVE JoinLines(_)
JoinLines(ls) ==
    IF ls = <<>> THEN <<>> ELSE <<"\n">> \o Head(ls) \o JoinLines(Tail(ls))

\* A head line followed by at most MaxLines indented lines.
IndentTexts ==
    {h \o JoinLines(ls) :
        h \in Heads, ls \in UNION {[1..n -> IndentedLines] : n \in 0..MaxLines}}

NoFlags ==
    [id |-> <<>>, is_parallel_state |-> FALSE, is_final_state |-> FALSE,
     is_initial_state |-> FALSE, is_indent_there |-> FALSE]

NoCall == [comb |-> "none", rule |-> "none", offset |-> 0, ret |-> 0, some |-> FALSE]

\* ----------------------------------------------------------- the machine
lines == SplitLines(input)

line == lines[line_no]

Init ==
    /\ input \in ScanTexts \cup IndentTexts
    /\ pc = "line"
    /\ line_no = 1
    /\ offset = 0
    /\ indent_stack = <<>>
    /\ tokens = <<>>
    /\ indent_tokens = <<>>
    /\ self_tokens = <<>>
    /\ p_offset = 0
    /\ flags = NoFlags
    /\ call = NoCall
    /\ result = [status |-> "none", node |-> None]

LexVars == <<line_no, offset, indent_stack, tokens, indent_tokens>>

ParseVars == <<self_tokens, p_offset, flags, call, result>>

\* tokenize, head of the for loop: indentation of the next line.
StartLine ==
    /\ pc = "line"
    /\ line_no <= Len(lines)
    /\ LET r == indent_dedent_tokens(indent_stack, line)
       IN  IF r.panic
           THEN /\ pc' = "lex_panic"
                /\ UNCHANGED <<offset, indent_stack, tokens, indent_tokens>>
           ELSE /\ pc' = "scan"
                /\ offset' = r.offset
                /\ indent_stack' = r.stack
                /\ indent_tokens' = r.tokens
                /\ tokens' = tokens \o r.tokens
    /\ UNCHANGED <<input, line_no>>
    /\ UNCHANGED ParseVars

\* tokenize, one iteration of the while loop over the line.
Scan ==
    /\ pc = "scan"
    /\ offset < Len(line)
    /\ LET s == ScanStep(line, offset)
       IN  /\ tokens' = IF s.status = "panic" THEN tokens ELSE tokens \o s.tokens
           /\ offset' = s.offset
           /\ pc' = CASE s.status = "next"  -> "scan"
                      [] s.status = "break" -> "line"
                      [] s.status = "panic" -> "lex_panic"
                      [] s.status = "hang"  -> "lex_hang"
           /\ line_no' = IF s.status = "break" THEN line_no + 1 ELSE line_no
    /\ UNCHANGED <<input, indent_stack, indent_tokens>>
    /\ UNCHANGED ParseVars

\* tokenize, exit of the while loop: on to the next line.
EndLine ==
    /\ pc = "scan"
    /\ offset >= Len(line)
    /\ pc' = "line"
    /\ line_no' = line_no + 1
    /\ UNCHANGED <<input, offset, indent_stack, tokens, indent_tokens>>
    /\ UNCHANGED ParseVars

\* tokenize, after the last line: pop out all the Dedents and return.
PopDedents ==
    /\ pc = "line"
    /\ line_no > Len(lines)
    /\ tokens' = tokens \o PopAll(indent_stack)
    /\ indent_stack' = <<>>
    /\ pc' = "lexed"
    /\ UNCHANGED <<input, line_no, offset, indent_tokens>>
    /\ UNCHANGED ParseVars

\* Parser::parse: keep the tokens that are not comments, call state_parser(0).
Filter ==
    /\ pc = "lexed"
    /\ self_tokens' = FilterComments(tokens)
    /\ p_offset' = 0
    /\ pc' = "identifier"
    /\ UNCHANGED <<input, flags, call, result>>
    /\ UNCHANGED LexVars

\* state_parser: let (offset, id) = self.identifier(offset)?; a None makes
\* state_parser return None and parse return Err.
ParseIdentifier ==
    /\ pc = "identifier"
    /\ LET x == TokenRule("identifier", self_tokens, p_offset)
       IN  IF x.panic
           THEN pc' = "parse_panic" /\ UNCHANGED <<p_offset, flags, result>>
           ELSE IF x.opt = None
           THEN /\ pc' = "done"
                /\ result' = [status |-> "Err", node |-> None]
                /\ UNCHANGED <<p_offset, flags>>
           ELSE /\ pc' = "parallel_state"
                /\ p_offset' = x.opt[1].offset
                /\ flags' = [flags EXCEPT !.id = x.opt[1].value]
                /\ UNCHANGED result
    /\ UNCHANGED <<input, self_tokens, call>>
    /\ UNCHANGED LexVars

\* state_parser: let (offset, option) = zero_or_one(offset, rule); flag set
\* when the option is Some.
Optional(at, rule, flag, next) ==
    /\ pc = at
    /\ LET z == zero_or_one(p_offset, rule, self_tokens)
       IN  IF z.panic
           THEN /\ pc' = "parse_panic"
                /\ UNCHANGED <<p_offset, flags, call>>
           ELSE /\ pc' = next
                /\ p_offset' = z.offset
                /\ flags' = [flags EXCEPT ![flag] = (z.opt # None)]
                /\ call' = [comb |-> "zero_or_one", rule |-> rule,
                            offset |-> p_offset, ret |-> z.offset,
                            some |-> (z.opt # None)]
    /\ UNCHANGED <<input, self_tokens, result>>
    /\ UNCHANGED LexVars

ParseParallel ==
    Optional("parallel_state", "parallel_state", "is_parallel_state", "final_state")

ParseFinal ==
    Optional("final_state", "final_state", "is_final_state", "initial_state")

ParseInitial ==
    Optional("initial_state", "initial_state", "is_initial_state", "indent")

ParseIndent ==
    Optional("indent", "indent", "is_indent_there", "dedent")

\* state_parser: if is_indent_there { zero_or_more(offset, dedent); } -- the
\* value of the call is dropped, the cursor of state_parser stays.
ParseDedents ==
    /\ pc = "dedent"
    /\ IF flags.is_indent_there
       THEN LET z == zero_or_more(p_offset, "dedent", self_tokens)
            IN  IF z.panic
                THEN pc' = "parse_panic" /\ UNCHANGED call
                ELSE /\ pc' = "return"
                     /\ call' = [comb |-> "zero_or_more", rule |-> "dedent",
                                 offset |-> p_offset, ret |-> z.offset,
                                 some |-> (z.opt # None)]
       ELSE pc' = "return" /\ UNCHANGED call
    /\ UNCHANGED <<input, self_tokens, p_offset, flags, result>>
    /\ UNCHANGED LexVars

\* state_parser returns Some(StateNode {...}); parse returns Ok(ast).
Return ==
    /\ pc = "return"
    /\ result' = [status |-> "Ok", node |-> Some(StateNode)]
    /\ pc' = "done"
    /\ UNCHANGED <<input, self_tokens, p_offset, flags, call>>
    /\ UNCHANGED LexVars

Next ==
    \/ StartLine
    \/ Scan
    \/ EndLine
    \/ PopDedents
    \/ Filter
    \/ ParseIdentifier
    \/ ParseParallel
    \/ ParseFinal
    \/ ParseInitial
    \/ ParseIndent
    \/ ParseDedents
    \/ Return

Spec == Init /\ [][Next]_vars

TypeOK ==
    /\ pc \in {"line", "scan", "lex_panic", "lex_hang", "lexed", "identifier",
               "parallel_state", "final_state", "initial_state", "indent",
               "dedent", "return", "parse_panic", "done"}
    /\ offset \in Nat
    /\ p_offset \in Nat

\* ------------------------------------------------------------ properties
Count(toks, typ) == Cardinality({i \in 1..Len(toks) : toks[i].typ = typ})

\* tokenize has returned its token vector.
TokenizeReturned == pc \notin {"line", "scan", "lex_panic", "lex_hang"}

\* Parser::parse has stored the filtered tokens and entered state_parser.
ParserEntered ==
    pc \in {"identifier", "parallel_state", "final_state", "initial_state",
            "indent", "dedent", "return", "parse_panic", "done"}

\* C1: on every input on which tokenize returns, the token vector holds as
\* many Indent tokens as Dedent tokens.
C1_Balanced ==
    TokenizeReturned => Count(tokens, "Indent") = Count(tokens, "Dedent")

\* Two levels were opened, one closed by a shallower line in the middle of
\* the document and one by the end-of-document loop.
C1_Witness ==
    /\ pc = "lexed"
    /\ Count(tokens, "Indent") >= 2
    /\ \E i \in 1..Len(tokens) : \E j \in (i + 1)..Len(tokens) :
          tokens[i].typ = "Dedent" /\ tokens[j].typ = "Identifier"
    /\ tokens[Len(tokens)].typ = "Dedent"

\* C2: tokenize never crashes -- whatever the text, it never reads a line
\* outside its bounds (nor slices it off a character boundary).
C2_TokenizeNeverCrashes == pc # "lex_panic"

\* C3: parse never crashes -- every tokens[offset] read by a rule has
\* offset < tokens.len().
C3_ParseNeverCrashes == pc # "parse_panic"

\* Number of leading spaces of a line.
Level(l) == Cardinality({i \in 1..Len(l) : \A j \in 1..i : l[j] = " "})

\* C4: a line whose level is below the top of the indent stack (level 0
\* included) pops every entry above the level and emits one Dedent per pop
\* before the line's content.
C4_DedentPerPop ==
    [][(/\ pc = "line"
        /\ pc' = "scan"
        /\ indent_stack # <<>>
        /\ Level(line) < indent_stack[Len(indent_stack)])
       => LET popped == {i \in 1..Len(indent_stack) :
                            indent_stack[i] > Level(line)}
          IN  /\ indent_tokens' =
                    [i \in 1..Cardinality(popped) |-> Tok("Dedent", <<>>)]
              /\ tokens' = tokens \o indent_tokens'
              /\ indent_stack' =
                    SelectSeq(indent_stack, LAMBDA w : w <= Level(line))]_vars

RECURSIVE HasBadDedent(_, _)
\* Some line of the level sequence dedents to a width that is neither zero
\* nor an entry left on the stack of open widths (the stack kept as section
\* 4.1 of the specification describes it).
HasBadDedent(levels, stack) ==
    IF levels = <<>> THEN FALSE
    ELSE LET lv   == Head(levels)
             kept == SelectSeq(stack, LAMBDA w : w <= lv)
         IN  IF kept # stack
             THEN IF lv > 0 /\ (kept = <<>> \/ kept[Len(kept)] # lv)
                  THEN TRUE
                  ELSE HasBadDedent(Tail(levels), kept)
             ELSE IF lv > 0 /\ (stack = <<>> \/ stack[Len(stack)] < lv)
             THEN HasBadDedent(Tail(levels), Append(stack, lv))
             ELSE HasBadDedent(Tail(levels), stack)

\* C5: a document with a dedent to a width that matches no entry left on the
\* indent stack is rejected: tokenize hands back no token stream for it.
C5_BadIndentRejected ==
    HasBadDedent([i \in 1..Len(lines) |-> Level(lines[i])], <<>>)
        => ~TokenizeReturned

\* C6: for a document that is one identifier X, parse returns Ok with a root
\* of id X, kind Atomic, no children and no transitions; and whenever parse
\* returns Ok the root's id is the text of the first Identifier token.
C6_SingleIdentifierRoot ==
    /\ (/\ input # <<>>
        /\ \A i \in 1..Len(input) : input[i] \in IdentChars
        /\ pc \in {"done", "parse_panic"})
       => /\ result.status = "Ok"
          /\ result.node # None
          /\ result.node[1].id = input
          /\ result.node[1].typ = "AtomicState"
          /\ result.node[1].states = <<>>
          /\ result.node[1].on = <<>>
    /\ (pc = "done" /\ result.status = "Ok")
       => result.node[1].id = self_tokens[1].text

\* C7: a declaration whose identifier is followed by a ParallelState marker
\* and a FinalState marker is never answered with Ok.
C7_ParallelFinalRejected ==
    (/\ pc = "done"
     /\ Len(self_tokens) >= 3
     /\ self_tokens[1].typ = "Identifier"
     /\ self_tokens[2].typ = "ParallelState"
     /\ self_tokens[3].typ = "FinalState")
    => result.status = "Err" /\ result.node = None

\* The first token that is not a comment exists and is not an Identifier.
FirstTokenNotIdentifier ==
    \E i \in 1..Len(tokens) :
        /\ tokens[i].typ \notin {"Comment", "Identifier"}
        /\ \A j \in 1..(i - 1) : tokens[j].typ = "Comment"

\* C8: when the first non-comment token is not an Identifier, parse goes
\* from the identifier rule straight to Err and never holds a StateNode.
C8_NoIdentifierIsErr ==
    (ParserEntered /\ FirstTokenNotIdentifier)
    => /\ pc \in {"identifier", "done"}
       /\ result.node = None
       /\ pc = "done" => result.status = "Err"

\* parse has returned for a document whose tokens start with a marker and
\* go on with further tokens.
C8_Witness ==
    /\ pc = "done"
    /\ FirstTokenNotIdentifier
    /\ Len(self_tokens) >= 2
    /\ result.status = "Err"

\* C9: when the scan meets ';' (or '>') and an identifier character comes
\* later on the line, exactly one Condition (Action) token is emitted, its
\* text is the maximal run of identifier characters that starts at the
\* first such character, and the scan resumes right after that run.
C9_MarkedTokenRun ==
    [][(/\ pc = "scan"
        /\ offset < Len(line)
        /\ line[offset + 1] \in {";", ">"}
        /\ \E k \in (offset + 2)..Len(line) : line[k] \in IdentChars)
       => LET first == CHOOSE k \in (offset + 2)..Len(line) :
                          /\ line[k] \in IdentChars
                          /\ \A j \in (offset + 2)..(k - 1) : line[j] \notin IdentChars
              last  == CHOOSE k \in first..Len(line) :
                          /\ \A j \in first..k : line[j] \in IdentChars
                          /\ k = Len(line) \/ line[k + 1] \notin IdentChars
              typ   == IF line[offset + 1] = ";" THEN "Condition" ELSE "Action"
          IN  /\ pc' = "scan"
              /\ tokens' = Append(tokens, Tok(typ, SubSeq(line, first, last)))
              /\ offset' = last]_vars

\* Length of the run of tokens of type typ that starts at 0-based index off.
RunLength(toks, off, typ) ==
    Cardinality({i \in (off + 1)..Len(toks) :
                    \A j \in (off + 1)..i : toks[j].typ = typ})

\* What the last combinator call returned, against the tokens it ran over.
CallIsCursorPure ==
    /\ call.comb = "zero_or_one" =>
          LET hit == /\ call.offset < Len(self_tokens)
                     /\ self_tokens[call.offset + 1].typ = RuleTyp(call.rule)
          IN  /\ call.some = hit
              /\ call.ret = IF hit THEN call.offset + 1 ELSE call.offset
    /\ call.comb = "zero_or_more" =>
          LET n == RunLength(self_tokens, call.offset, RuleTyp(call.rule))
          IN  /\ call.some = (n > 0)
              /\ call.ret = call.offset + n

\* C10: zero_or_one hands back the caller's offset when the rule fails and
\* the rule's offset when it succeeds, zero_or_more the offset after the
\* last success (the caller's when there is none), and no parser step
\* changes the token vector, the tokenizer's state or the input.
C10_CursorPure ==
    /\ []CallIsCursorPure
    /\ [][ParserEntered =>
            /\ self_tokens' = self_tokens
            /\ tokens' = tokens
            /\ indent_stack' = indent_stack
            /\ input' = input]_vars

\* zero_or_more has consumed at least one Dedent after a zero_or_one that
\* failed (parallel_state) and one that succeeded (initial_state).
C10_Witness ==
    /\ call.comb = "zero_or_more"
    /\ call.ret > call.offset
    /\ flags.is_initial_state
    /\ ~flags.is_parallel_state

\* C11: every iteration of the scan loop that runs to its end either ends
\* the line (comment) or moves the character offset forward by at least
\* one, so the loop over a finite line comes to an end.
C11_ScanAdvances ==
    [][(/\ pc = "scan"
        /\ offset < Len(line)
        /\ pc' # "lex_panic")
       => \/ pc' = "line" /\ line_no' = line_no + 1
          \/ pc' = "scan" /\ offset' > offset]_vars

\* C12: at every point of tokenize the indent stack is as long as the
\* Indent tokens emitted so far minus the Dedent tokens emitted so far, and
\* no prefix of the token stream holds more Dedent than Indent tokens.
C12_WellNested ==
    /\ Len(indent_stack) = Count(tokens, "Indent") - Count(tokens, "Dedent")
    /\ \A k \in 0..Len(tokens) :
          Count(SubSeq(tokens, 1, k), "Dedent")
              <= Count(SubSeq(tokens, 1, k), "Indent")

\* In the middle of a document, after a line that closed one level and left
\* another open.
C12_Witness ==
    /\ pc = "scan"
    /\ line_no > 2
    /\ Len(indent_stack) >= 1
    /\ Count(indent_tokens, "Dedent") >= 1
    /\ Count(tokens, "Indent") >= 2

\* C13: a line with the same number of leading spaces as the line before it
\* gets no Indent and no Dedent, whatever lines came earlier.
C13_SameLevelNoStructure ==
    [][(/\ pc = "line"
        /\ pc' = "scan"
        /\ line_no > 1
        /\ Level(lines[line_no]) = Level(lines[line_no - 1]))
       => /\ indent_tokens' = <<>>
          /\ tokens' = tokens]_vars

====
